---- MODULE Spec2Model ----
(***************************************************************************)
(* agent-bridge: the bounded request queue, the orchestrator               *)
(* (executeRequest), the workspace manager (setupWorkspace and its git     *)
(* helpers) and the callback reporter, as one state machine.  Every action *)
(* is one run-to-completion step of the single JavaScript thread: the      *)
(* synchronous code between two awaits.  The outcome of every external     *)
(* operation (git, the filesystem, the provider, the timer) is chosen      *)
(* nondeterministically; how the callback endpoint answers is a property   *)
(* of the request that names it.  The HTTP handler stands in front of the  *)
(* queue (HttpSpec); the helpers whose result depends on their inputs      *)
(* alone (verifyGitPush, createWorktree's commands, the MCP merge,         *)
(* injectOverlays, the tempdir setup, the handler's validation) are        *)
(* studied one call at a time (HelperSpec).  The memory client's Session   *)
(* (buffered turns, flush timer, close) is a machine of its own            *)
(* (SessionSpec).                                                          *)
(***************************************************************************)
EXTENDS Integers, Sequences, FiniteSets, TLC

\* Bounds of the model.
NumReq == 3
MaxConcurrent == 2
NumSlugs == 1
MaxClock == 2
MaxLines == 2
MaxAdds == 3
MaxCloseCalls == 2
MaxBufferSize == 2

Ids == 1..NumReq
Slugs == 1..NumSlugs

VARIABLES
    request,    \* request[r]: the ExecutionRequest handed to queue.submit
    ex,         \* ex[r]: the locals of executeRequest(request[r]) and its position
    active,     \* the queue's active count
    backlog,    \* the queue's FIFO backlog
    bare,       \* bare[s]: the bare repository of slug s exists on disk
    now,        \* Date.now(), non-decreasing
    enqLog,     \* history: requests in the order they entered the backlog
    startLog,   \* history: requests in the order their execution began
    escaped,    \* history: errors raised out of the queue
    maxConcurrent, \* config.maxConcurrent, read once at boot
    clones,     \* history: clones[s] counts the `git clone --bare` started for slug s
    providers,  \* the provider registry: the names registered by initProviders
    call,       \* one call of a helper studied on its own: its inputs, then its result
    session     \* one memory Session: its fields, its close() calls, its requests

vars == <<request, ex, active, backlog, bare, now, enqLog, startLog, escaped, maxConcurrent,
          clones, providers, call, session>>

\* ------------------------------------------------------------------ requests

\* How the fetch of sendCallback can end: a 2xx response, another status, a
\* transport failure, the abort of its 10 s timer.
DeliveryOutcomes == {"ok", "non2xx", "transport", "aborted"}

\* expectBranchPush is metadata.expectBranchPush: "undefined", "true" for the
\* boolean true, "string" for a truthy value that is not the boolean.
\* timeoutMs is agent.limits.timeoutMs as a set: empty when absent, else its value.
\* endpoint is how the server behind callbackUrl answers the one POST it gets.
\* id is the request's id, given by the transport; 0 while there is no request.
NoRequest == [id |-> 0, prompt |-> "none", callbackUrl |-> FALSE, wsType |-> "none", repo |-> 0,
              branch |-> "main", overlays |-> FALSE, expectBranchPush |-> "undefined",
              provider |-> "claude-code", timeoutMs |-> {}, endpoint |-> "ok"]

\* The request shapes submitted: the fields the orchestrator branches on.
\* branch "main" also stands for an absent branch (createWorktree's default).
\* wsType "other" and a blank prompt reach the queue through the Pusher transport.
Shapes ==
    { [NoRequest EXCEPT !.prompt = "blank", !.callbackUrl = cb] : cb \in BOOLEAN }
    \cup
    { [NoRequest EXCEPT !.prompt = "ok", !.callbackUrl = TRUE, !.wsType = "git", !.repo = s,
                        !.branch = "feature", !.overlays = TRUE, !.expectBranchPush = "true",
                        !.endpoint = "non2xx"]
        : s \in Slugs }
    \cup
    { [NoRequest EXCEPT !.prompt = "ok", !.callbackUrl = TRUE, !.wsType = w,
                        !.endpoint = IF w = "tempdir" THEN "transport" ELSE "aborted"]
        : w \in {"tempdir", "other"} }
    \cup
    { [NoRequest EXCEPT !.prompt = "ok", !.callbackUrl = (p = "unknown"), !.provider = p]
        : p \in {"claude-code", "unknown"} }

\* Every combination of the fields the orchestrator branches on, for the study of
\* one execution: branch and overlays exist on a git workspace only.
TimeoutMsValues == { {}, {0}, {100} }
AllShapes ==
    { q \in [id : {0}, prompt : {"blank", "ok"}, callbackUrl : BOOLEAN,
             wsType : {"none", "git", "tempdir", "other"}, repo : {0, 1},
             branch : {"main", "feature"}, overlays : BOOLEAN,
             expectBranchPush : {"undefined", "true", "string"}, provider : {"claude-code", "unknown"},
             timeoutMs : TimeoutMsValues, endpoint : DeliveryOutcomes] :
        /\ q.repo = 1 <=> q.wsType = "git"
        /\ q.wsType # "git" => q.branch = "main" /\ ~q.overlays
        /\ ~q.callbackUrl => q.endpoint = "ok" }

\* ---------------------------------------------------------------- executions

\* config.timeout: BRIDGE_TIMEOUT's default, 30 min in ms.
ConfigTimeout == 1800000

\* An Error's message, by what it names: ms for the timeout, commits for the
\* push verification diagnostic.
NoError == [kind |-> "none", ms |-> 0, commits |-> "none"]
Failure(kind) == [NoError EXCEPT !.kind = kind]

\* The usage a provider result carries, one number for the four counters; it is
\* not zero, buildErrorPayload's counters are.
ReportedUsage(st) == IF st = "success" THEN 2 ELSE 1

\* The output a provider result carries (ProviderResult.output).
ReportedOutput(st) == IF st = "success" THEN "answer" ELSE "partial"

\* request.metadata: the caller's map, of which the orchestrator reads
\* expectBranchPush.
Metadata(q) == [expectBranchPush |-> q.expectBranchPush]

\* What verifyGitPush can report as unpushedCommits when pushed is false.
UnpushedReports == {"abc1234 wip", "(branch not on remote)", "(verification error)"}

NoExec == [pc |-> "idle", cleanup |-> "undefined", providerPromise |-> "none",
           timeoutId |-> "unset", bareOp |-> "none", worktreePath |-> 0, onDisk |-> FALSE,
           pushVerificationFailed |-> FALSE, callbacks |-> <<>>, disposals |-> 0,
           promise |-> "pending",
           timeout |-> 0, err |-> NoError, pushVerificationError |-> NoError,
           posts |-> 0, delivery |-> "none", trail |-> <<>>, verification |-> "none"]

\* The execution enters a state of its lifecycle (history).
Enter(e, phase) == [e EXCEPT !.trail = Append(@, phase)]

\* executeRequest's promise settles; the queue's continuation is pending.
Settle(e, how) == [Enter(e, "Done") EXCEPT !.pc = "settled", !.promise = how]

\* What is left of an execution once the queue has taken note of its end: its
\* locals are gone; how its promise settled, a directory it left on disk and a
\* provider call that is still running remain.
Ended(e) ==
    [NoExec EXCEPT !.pc = "done",
                   !.promise = e.promise,
                   !.onDisk = e.onDisk,
                   !.worktreePath = IF e.onDisk THEN e.worktreePath ELSE 0,
                   !.providerPromise = IF e.providerPromise = "running"
                                       THEN "running" ELSE "none"]

\* The end of the try statement without its finally block.
FinallySkipped(e) == { Settle(e, "resolved") }

\* The finally block as it would be if the worktree's disposal were started but
\* not awaited.
FinallyNotAwaited(e) ==
    LET f == Enter(e, "CleaningUp") IN
    CASE f.cleanup = "undefined" -> { Settle(f, "resolved") }
      [] f.cleanup = "noop" -> { Settle([f EXCEPT !.disposals = @ + 1], "resolved") }
      [] f.cleanup = "tempdir" ->
            { Settle([f EXCEPT !.disposals = @ + 1, !.onDisk = FALSE], "resolved"),
              Settle([f EXCEPT !.disposals = @ + 1], "rejected") }
      [] f.cleanup = "worktree" -> { Settle([f EXCEPT !.disposals = @ + 1], "resolved") }

\* finally { await cleanup?.() }: the synchronous start of the disposal action.
\* rmSync may throw; a throw rejects cleanup's promise and so executeRequest's.
Finally(e) ==
    LET f == Enter(e, "CleaningUp") IN
    CASE f.cleanup = "undefined" -> { Settle(f, "resolved") }
      [] f.cleanup = "noop" -> { Settle([f EXCEPT !.disposals = @ + 1], "resolved") }
      [] f.cleanup = "tempdir" ->
            { Settle([f EXCEPT !.disposals = @ + 1, !.onDisk = FALSE], "resolved"),
              Settle([f EXCEPT !.disposals = @ + 1], "rejected") }
      [] f.cleanup = "worktree" -> { [f EXCEPT !.disposals = @ + 1, !.pc = "cl_remove"] }

\* buildErrorPayload as it would be if it dropped the caller's metadata.
BuildErrorPayloadWithoutMetadata(q, error) ==
    [id |-> q.id, status |-> "error", usage |-> 0, result |-> "undefined", error |-> error,
     metadata |-> Metadata(NoRequest)]

\* buildErrorPayload: the request's id and metadata, status error, the four
\* usage counters zero, no result.
BuildErrorPayload(q, error) ==
    [id |-> q.id, status |-> "error", usage |-> 0, result |-> "undefined", error |-> error,
     metadata |-> Metadata(q)]

\* The status of the payload built after the race: push verification alone
\* decides it, providerResult.status is not read.
PayloadStatus(e) == IF e.pushVerificationFailed THEN "error" ELSE "success"

\* The payload built after the race: the request's id and metadata, the
\* provider's usage and output and, when push verification failed, its diagnostic.
BuildPayload(e, q) ==
    [id |-> q.id, status |-> PayloadStatus(e), usage |-> ReportedUsage(e.providerPromise),
     result |-> ReportedOutput(e.providerPromise), error |-> e.pushVerificationError,
     metadata |-> Metadata(q)]

\* sendCallback up to its await: one fetch is issued.
Post(e, payload) == [e EXCEPT !.callbacks = Append(@, payload), !.posts = @ + 1]

\* The catch branch as it would be with the disposal at the end of the try block
\* instead of in a finally.
CatchWithoutFinally(e, q) ==
    LET c == Enter(e, IF e.err.kind = "timeout" THEN "TimedOut" ELSE "Failed") IN
    IF q.callbackUrl
    THEN { [Post(c, BuildErrorPayload(q, c.err)) EXCEPT !.pc = "cb_err"] }
    ELSE { Settle(c, "resolved") }

\* catch (err) { if (request.callbackUrl) await sendCallback(error payload) }
\* e.err is the value caught.
Catch(e, q) ==
    LET c == Enter(e, IF e.err.kind = "timeout" THEN "TimedOut" ELSE "Failed") IN
    IF q.callbackUrl
    THEN { [Post(c, BuildErrorPayload(q, c.err)) EXCEPT !.pc = "cb_err"] }
    ELSE Finally(c)

\* "Send callback" followed by the catch branch, as if sendCallback could throw.
SendCallbackThenCatch(e, q) ==
    IF q.callbackUrl
    THEN Catch(Post(e, BuildPayload(e, q)), q)
    ELSE Finally(e)

\* "Send callback": the payload is built and sent when a callback URL was given.
SendCallback(e, q) ==
    IF q.callbackUrl
    THEN { [Post(e, BuildPayload(e, q)) EXCEPT !.pc = "cb"] }
    ELSE Finally(e)

\* The condition of push verification: a git workspace, a branch that is not
\* main, metadata.expectBranchPush === true.
VerifiesAnyBranch(q) == q.wsType = "git" /\ q.expectBranchPush = "true"
VerifiesPush(q) == q.wsType = "git" /\ q.branch # "main" /\ q.expectBranchPush = "true"

\* After the race was won by the provider: push verification is opt-in.
AfterRace(e, q) ==
    LET c == Enter(e, "Completed") IN
    IF VerifiesPush(q)
    THEN { [c EXCEPT !.pc = "verify"] }
    ELSE SendCallback(c, q)

\* request.agent?.limits?.timeoutMs ?? config.timeout
ResolveTimeoutDefault(q) == ConfigTimeout
ResolveTimeout(q) ==
    IF q.timeoutMs = {} THEN ConfigTimeout ELSE CHOOSE t \in q.timeoutMs : TRUE

\* getProvider as it would be if it handed out a provider for any name.
GetProviderAny(name) == TRUE

\* getProvider(name): the registry is read; FALSE stands for the throw on a name
\* that is not registered.
GetProvider(name) == name \in providers

\* setupWorkspace returned a handle: cleanup is assigned, the MCP descriptor is
\* loaded (JSON.parse may throw), the provider is resolved (getProvider throws on
\* an unknown name), provider.run is called and the timer is armed.
AfterSetup(e, q, handle) ==
    LET e1 == [e EXCEPT !.cleanup = handle] IN
    Catch([e1 EXCEPT !.err = Failure(IF GetProvider(q.provider)
                                     THEN "mcp" ELSE "unknown provider")], q)
    \cup
    (IF GetProvider(q.provider)
     THEN { [Enter(e1, "Running") EXCEPT !.pc = "race", !.providerPromise = "running",
                                         !.timeout = ResolveTimeout(q),
                                         !.timeoutId = "pending"] }
     ELSE {})

\* The failure of setupWorkspace as it would be if a handle had been assigned
\* before the throw.
SetupFailedWithHandle(e, q) == Catch([e EXCEPT !.err = Failure("setup"), !.cleanup = "noop"], q)

\* setupWorkspace threw: executeRequest's cleanup is still undefined.
SetupFailed(e, q) == Catch([e EXCEPT !.err = Failure("setup")], q)

\* executeRequest without its empty-prompt guard.
BeginWithoutGuard(e, q, ops) ==
    LET v == [e EXCEPT !.trail = <<"Created", "ValidatingInput", "SettingUpWorkspace">>] IN
    CASE q.wsType = "none" -> { [v EXCEPT !.pc = "setup_ret"] }
      [] q.wsType = "git" -> { [v EXCEPT !.pc = "bare", !.bareOp = op] : op \in ops }
      [] q.wsType = "tempdir" ->
            { [v EXCEPT !.pc = "setup_ret", !.onDisk = TRUE],
              [v EXCEPT !.pc = "setup_throw", !.onDisk = TRUE] }
      [] OTHER -> { [v EXCEPT !.pc = "setup_throw"] }

\* The synchronous prefix of executeRequest: the empty-prompt guard, then
\* setupWorkspace up to its first await.  ops: the operations ensureBareClone
\* can choose given what existsSync(barePath) can return.
Begin(e, q, ops) ==
    LET v == [e EXCEPT !.trail = <<"Created", "ValidatingInput">>] IN
    IF q.prompt = "blank"
    THEN IF q.callbackUrl
         THEN { [Post(v, BuildErrorPayload(q, Failure("empty prompt")))
                    EXCEPT !.pc = "cb_guard"] }
         ELSE { Settle(v, "resolved") }
    ELSE LET w == Enter(v, "SettingUpWorkspace") IN
         CASE q.wsType = "none" -> { [w EXCEPT !.pc = "setup_ret"] }
           [] q.wsType = "git" -> { [w EXCEPT !.pc = "bare", !.bareOp = op] : op \in ops }
           [] q.wsType = "tempdir" ->
                 { [w EXCEPT !.pc = "setup_ret", !.onDisk = TRUE],
                   [w EXCEPT !.pc = "setup_throw", !.onDisk = TRUE] }
           [] OTHER -> { [w EXCEPT !.pc = "setup_throw"] }

\* What ensureBareClone does for slug s: fetch when the bare path exists, clone
\* when it does not; while another clone of s is in flight the path may or may
\* not exist yet.
BareOps(s) ==
    IF s \notin Slugs THEN {"none"}
    ELSE IF bare[s] THEN {"fetch"}
    ELSE IF \E o \in Ids : ex[o].pc = "bare" /\ ex[o].bareOp = "clone" /\ request[o].repo = s
         THEN {"clone", "fetch"}
         ELSE {"clone"}

\* The clones started by a step that leaves execution e2 of request q in
\* ensureBareClone.
ClonesStarted(e2, q) ==
    [s \in Slugs |-> IF e2.pc = "bare" /\ e2.bareOp = "clone" /\ q.repo = s
                     THEN clones[s] + 1 ELSE clones[s]]

\* ------------------------------------------------------------------- queue

\* The admission test of submit: a slot is free.
AdmitOffByOne(a, m) == a <= m
AdmitAlways(a, m) == TRUE
Admit(a, m) == a < m

\* The release of the backlog's head: the entry started and what stays queued.
ShiftLast(b) == [item |-> b[Len(b)], rest |-> SubSeq(b, 1, Len(b) - 1)]
ShiftPeek(b) == [item |-> Head(b), rest |-> b]
Shift(b) == [item |-> Head(b), rest |-> Tail(b)]

\* queue.submit(request): run at once while a slot is free, else append.
\* q is the request without its id; the r-th request submitted has id r.
Submit(r, q) ==
    /\ ex[r].pc = "idle"
    /\ \A o \in Ids : o < r => ex[o].pc # "idle"
    /\ request' = [request EXCEPT ![r] = [q EXCEPT !.id = r]]
    /\ IF Admit(active, maxConcurrent)
       THEN /\ \E e2 \in Begin(ex[r], [q EXCEPT !.id = r], BareOps(q.repo)) :
                  /\ ex' = [ex EXCEPT ![r] = e2]
                  /\ clones' = ClonesStarted(e2, q)
            /\ active' = active + 1
            /\ startLog' = Append(startLog, r)
            /\ UNCHANGED <<backlog, enqLog>>
       ELSE /\ ex' = [ex EXCEPT ![r].pc = "queued"]
            /\ backlog' = Append(backlog, r)
            /\ enqLog' = Append(enqLog, r)
            /\ UNCHANGED <<active, startLog, clones>>
    /\ UNCHANGED <<bare, now, escaped, maxConcurrent, providers, call, session>>

\* Whether the queue releases the slot of an execution whose promise settled as
\* `how`, and how many errors it lets out: every outcome releases, none escapes.
ReleaseIfResolved(how) == how = "resolved"
Release(how) == TRUE
Raised(how) == 0

\* The queue's completion step: whatever the outcome, the slot is released and
\* the head of the backlog, if any, is started.
QueueComplete(r) ==
    /\ ex[r].pc = "settled"
    /\ escaped' = escaped + Raised(ex[r].promise)
    /\ IF ~Release(ex[r].promise)
       THEN /\ ex' = [ex EXCEPT ![r] = Ended(ex[r])]
            /\ UNCHANGED <<active, backlog, startLog, clones>>
       ELSE
       IF backlog # <<>>
       THEN LET h == Shift(backlog).item IN
            /\ \E e2 \in Begin(ex[h], request[h], BareOps(request[h].repo)) :
                  /\ ex' = [ex EXCEPT ![r] = Ended(ex[r]), ![h] = e2]
                  /\ clones' = ClonesStarted(e2, request[h])
            /\ backlog' = Shift(backlog).rest
            /\ startLog' = Append(startLog, h)
            /\ active' = active
       ELSE /\ ex' = [ex EXCEPT ![r] = Ended(ex[r])]
            /\ active' = active - 1
            /\ UNCHANGED <<backlog, startLog, clones>>
    /\ request' = [request EXCEPT ![r] = NoRequest]
    /\ UNCHANGED <<bare, now, enqLog, maxConcurrent, providers, call, session>>

\* ------------------------------------------------------ workspace (git)

\* The clone or fetch of ensureBareClone ends.  On success createWorktree starts:
\* it reads Date.now() for the path and runs `git worktree prune`.
BareDone(r) ==
    /\ ex[r].pc = "bare"
    /\ LET s == request[r].repo IN
       \/ /\ ex[r].bareOp = "clone" => ~bare[s]
          /\ ex[r].bareOp = "fetch" => bare[s]
          /\ bare' = [bare EXCEPT ![s] = TRUE]
          /\ \E t \in now..MaxClock :
                /\ now' = t
                /\ ex' = [ex EXCEPT ![r].pc = "wt_prune", ![r].bareOp = "none",
                                     ![r].worktreePath = t]
       \/ /\ \E e2 \in SetupFailed([ex[r] EXCEPT !.bareOp = "none"], request[r]) :
                ex' = [ex EXCEPT ![r] = e2]
          /\ UNCHANGED <<bare, now>>
    /\ UNCHANGED <<request, active, backlog, enqLog, startLog, escaped, maxConcurrent,
                   clones, providers, call, session>>

\* A step of execution r that touches only its own locals.
Local(r, outcomes) ==
    /\ \E e2 \in outcomes : ex' = [ex EXCEPT ![r] = e2]
    /\ UNCHANGED <<request, active, backlog, bare, now, enqLog, startLog, escaped,
                   maxConcurrent, clones, providers, call, session>>

\* `git worktree add` fails when the path is already there.
PathTaken(r, t) == \E o \in Ids \ {r} : ex[o].onDisk /\ ex[o].worktreePath = t

\* createWorktree returned: the worktree is on disk.  setupWorkspace goes on with
\* injectOverlays (synchronous, cpSync may throw) and `git config user.name`.
WorktreeAdded(e, q) ==
    LET e1 == [e EXCEPT !.onDisk = TRUE] IN
    { [e1 EXCEPT !.pc = "cfg_name"] }
    \cup
    (IF q.overlays THEN SetupFailed(e1, q) ELSE {})

\* `git worktree prune` of createWorktree ends; then `git worktree add <branch>`.
WtPruneDone(r) ==
    /\ ex[r].pc = "wt_prune"
    /\ Local(r, { [ex[r] EXCEPT !.pc = "wt_add"] } \cup SetupFailed(ex[r], request[r]))

\* `git worktree add --detach <path> <branch>` ends; on failure main is tried.
WtAddDone(r) ==
    /\ ex[r].pc = "wt_add"
    /\ Local(r, { [ex[r] EXCEPT !.pc = "wt_add_main"] }
                \cup (IF PathTaken(r, ex[r].worktreePath) THEN {}
                      ELSE WorktreeAdded(ex[r], request[r])))

\* `git worktree add --detach <path> main` ends; its failure fails createWorktree.
WtAddMainDone(r) ==
    /\ ex[r].pc = "wt_add_main"
    /\ Local(r, SetupFailed(ex[r], request[r])
                \cup (IF PathTaken(r, ex[r].worktreePath) THEN {}
                      ELSE WorktreeAdded(ex[r], request[r])))

\* `git config user.name` ends; then `git config user.email`.
CfgNameDone(r) ==
    /\ ex[r].pc = "cfg_name"
    /\ Local(r, { [ex[r] EXCEPT !.pc = "cfg_email"] } \cup SetupFailed(ex[r], request[r]))

\* `git config user.email` ends; setupWorkspace returns the worktree's handle.
CfgEmailDone(r) ==
    /\ ex[r].pc = "cfg_email"
    /\ Local(r, AfterSetup(ex[r], request[r], "worktree")
                \cup SetupFailed(ex[r], request[r]))

\* ------------------------------------------------------------ orchestrator

\* setupWorkspace's promise (no workspace, tempdir, unsupported type) is awaited.
SetupRet(r) ==
    /\ ex[r].pc \in {"setup_ret", "setup_throw"}
    /\ Local(r, IF ex[r].pc = "setup_throw" THEN SetupFailed(ex[r], request[r])
                ELSE AfterSetup(ex[r], request[r],
                                IF request[r].wsType = "tempdir" THEN "tempdir" ELSE "noop"))

\* clearTimeout(timeoutId): a pending timer is cancelled, a fired one is left.
ClearTimeoutSkipped(id) == id
ClearTimeout(id) == IF id = "pending" THEN "cleared" ELSE id

\* A late settlement as it would be if the orchestrator still reacted to it by
\* running the disposal again.
LateOutcomeDisposes(e) ==
    [e EXCEPT !.providerPromise = IF e.pc = "done" THEN "none" ELSE "late",
              !.disposals = @ + 1]

\* The provider settles after the race was lost: nobody awaits the promise any
\* more, its value is dropped.
LateOutcome(e) ==
    [e EXCEPT !.providerPromise = IF e.pc = "done" THEN "none" ELSE "late"]

\* provider.run's promise resolves.  It wins the race only while the orchestrator
\* still waits; the finally of the race clears the timer.
ProviderResolve(r, st) ==
    /\ ex[r].providerPromise = "running"
    /\ Local(r, IF ex[r].pc = "race"
                THEN AfterRace([ex[r] EXCEPT !.providerPromise = st,
                                             !.timeoutId = ClearTimeout(@)],
                               request[r])
                ELSE { LateOutcome(ex[r]) })

\* provider.run's promise rejects.
ProviderReject(r) ==
    /\ ex[r].providerPromise = "running"
    /\ Local(r, IF ex[r].pc = "race"
                THEN Catch([ex[r] EXCEPT !.providerPromise = "rejected",
                                         !.timeoutId = ClearTimeout(@),
                                         !.err = Failure("provider")], request[r])
                ELSE { LateOutcome(ex[r]) })

\* The timeout timer fires: the race rejects with an Error whose message names
\* the timeout in ms; nothing aborts the provider.
TimerFire(r) ==
    /\ ex[r].timeoutId = "pending"
    /\ Local(r, IF ex[r].pc = "race"
                THEN Catch([ex[r] EXCEPT !.timeoutId = ClearTimeout("fired"),
                                         !.err = [NoError EXCEPT !.kind = "timeout",
                                                                 !.ms = ex[r].timeout]],
                           request[r])
                ELSE { [ex[r] EXCEPT !.timeoutId = "fired"] })

\* verifyGitPush returns (it never throws); when it reports not pushed the
\* diagnostic lists its unpushedCommits.
VerifyDone(r, pushed) ==
    /\ ex[r].pc = "verify"
    /\ Local(r, IF pushed
                THEN SendCallback([ex[r] EXCEPT !.verification = "pushed"], request[r])
                ELSE UNION { SendCallback(
                                [ex[r] EXCEPT !.verification = "not pushed",
                                              !.pushVerificationFailed = TRUE,
                                              !.pushVerificationError =
                                                  [NoError EXCEPT !.kind = "push",
                                                                  !.commits = c]],
                                request[r]) : c \in UnpushedReports })

\* sendCallback as it would be with one more attempt after a failed one.
DeliveredWithRetry(e, outcome) ==
    [e EXCEPT !.delivery = outcome, !.posts = IF outcome = "ok" THEN @ ELSE @ + 1]

\* sendCallback after its fetch settled: every outcome is logged and none is
\* thrown or retried.
Delivered(e, outcome) == [e EXCEPT !.delivery = outcome]

\* sendCallback returns (it never throws), delivered or not.
CallbackDone(r) ==
    /\ ex[r].pc \in {"cb", "cb_err", "cb_guard"}
    /\ LET d == Delivered(ex[r], request[r].endpoint) IN
       Local(r, IF d.pc = "cb_guard" THEN { Settle(d, "resolved") } ELSE Finally(d))

\* --------------------------------------------------- worktree disposal

\* `git worktree remove --force` ends.  On failure: rmSync (may throw), then
\* `git worktree prune`.
ClRemoveDone(r) ==
    /\ ex[r].pc = "cl_remove"
    /\ Local(r, { Settle([ex[r] EXCEPT !.onDisk = FALSE], "resolved"),
                  [ex[r] EXCEPT !.onDisk = FALSE, !.pc = "cl_prune"],
                  Settle(ex[r], "rejected") })

\* The fallback's `git worktree prune` ends; its failure rejects cleanup.
ClPruneDone(r) ==
    /\ ex[r].pc = "cl_prune"
    /\ Local(r, { Settle(ex[r], "resolved"), Settle(ex[r], "rejected") })

\* No helper call is under study.
NoCall == [fn |-> "none"]

\* The process after boot: the queue is idle, nothing is on disk, initProviders
\* has registered the one provider.
Boot ==
    /\ request = [r \in Ids |-> NoRequest]
    /\ ex = [r \in Ids |-> NoExec]
    /\ active = 0
    /\ backlog = <<>>
    /\ bare = [s \in Slugs |-> FALSE]
    /\ now = 1
    /\ enqLog = <<>>
    /\ startLog = <<>>
    /\ escaped = 0
    /\ maxConcurrent \in 1..MaxConcurrent
    /\ clones = [s \in Slugs |-> 0]
    /\ providers = {"claude-code"}

\* No memory Session is under study.
NoSession == [sessionId |-> 0]

Init == Boot /\ call = NoCall /\ session = NoSession

Next ==
    \E r \in Ids :
        \/ \E q \in Shapes : Submit(r, q)
        \/ QueueComplete(r)
        \/ BareDone(r)
        \/ WtPruneDone(r)
        \/ WtAddDone(r)
        \/ WtAddMainDone(r)
        \/ CfgNameDone(r)
        \/ CfgEmailDone(r)
        \/ SetupRet(r)
        \/ \E st \in {"success", "error"} : ProviderResolve(r, st)
        \/ ProviderReject(r)
        \/ TimerFire(r)
        \/ \E pushed \in BOOLEAN : VerifyDone(r, pushed)
        \/ CallbackDone(r)
        \/ ClRemoveDone(r)
        \/ ClPruneDone(r)

Spec == Init /\ [][Next]_vars

\* Liveness is checked on the executions that need no git: every outcome of an
\* execution (resolved, rejected after a failed disposal, timed out, failed
\* setup, unknown provider, blank prompt) occurs among them.
LiveShapes == { q \in Shapes : q.wsType # "git" }

LiveProgress ==
    \E r \in Ids :
        \/ QueueComplete(r)
        \/ SetupRet(r)
        \/ \E st \in {"success", "error"} : ProviderResolve(r, st)
        \/ ProviderReject(r)
        \/ TimerFire(r)
        \/ CallbackDone(r)

FairNext ==
    \/ \E r \in Ids, q \in LiveShapes : Submit(r, q)
    \/ LiveProgress

\* Every step but a submission is one the event loop takes once it is enabled:
\* a pending timer fires, a settled promise's continuation runs.
FairSpec == Init /\ [][FairNext]_vars /\ WF_vars(LiveProgress)

\* The requests that differ in the provider they name and in whether a
\* workspace has to be disposed of; the callback endpoint answers 2xx.
ProviderShapes ==
    { q \in AllShapes : /\ q.prompt = "ok" /\ q.callbackUrl /\ q.endpoint = "ok"
                        /\ q.wsType \in {"none", "tempdir"}
                        /\ q.expectBranchPush = "undefined" /\ q.timeoutMs = {} }

ProviderNext ==
    \/ \E r \in Ids, q \in ProviderShapes : Submit(r, q)
    \/ LiveProgress

\* Executions that name registered and unregistered providers, side by side and
\* one after the other.
ProviderSpec == Init /\ [][ProviderNext]_vars

\* One execution studied alone, over every request shape the orchestrator can
\* be handed (request 1 on an idle queue).
ExecNext ==
    \/ \E q \in AllShapes : Submit(1, q)
    \/ QueueComplete(1)
    \/ BareDone(1)
    \/ WtPruneDone(1)
    \/ WtAddDone(1)
    \/ WtAddMainDone(1)
    \/ CfgNameDone(1)
    \/ CfgEmailDone(1)
    \/ SetupRet(1)
    \/ \E st \in {"success", "error"} : ProviderResolve(1, st)
    \/ ProviderReject(1)
    \/ TimerFire(1)
    \/ \E pushed \in BOOLEAN : VerifyDone(1, pushed)
    \/ CallbackDone(1)
    \/ ClRemoveDone(1)
    \/ ClPruneDone(1)

ExecSpec == Init /\ [][ExecNext]_vars

\* What the event loop and the operating system do without the provider's help:
\* a pending timer fires, a git command and a fetch end, a continuation runs.
\* The provider's promise is under no obligation to settle.
TimerProgress ==
    \/ QueueComplete(1)
    \/ BareDone(1)
    \/ WtPruneDone(1)
    \/ WtAddDone(1)
    \/ WtAddMainDone(1)
    \/ CfgNameDone(1)
    \/ CfgEmailDone(1)
    \/ SetupRet(1)
    \/ TimerFire(1)
    \/ \E pushed \in BOOLEAN : VerifyDone(1, pushed)
    \/ CallbackDone(1)
    \/ ClRemoveDone(1)
    \/ ClPruneDone(1)

TimerSpec == Init /\ [][ExecNext]_vars /\ WF_vars(TimerProgress)

\* ------------------------------------------------- helpers, one call each

\* The sequences over S of length at most n.
SeqsUpTo(S, n) == UNION { [1..k -> S] : k \in 0..n }

\* The lines of a text that are not empty: trim().split("\n").filter(Boolean).
NonBlank(lines) == SelectSeq(lines, LAMBDA l : l # "")

\* What `git log --oneline origin/<branch>..HEAD 2>/dev/null || echo ""` can
\* do: exec rejects (the shell cannot be run in cwd), git exits non-zero and the
\* shell echoes an empty line instead, or git prints its lines, one per commit.
CommitLines == {"", "abc1234 wip", "def5678 fix"}
LogOutcomes ==
    { [outcome |-> o, lines |-> <<>>] : o \in {"exec error", "git error"} }
    \cup { [outcome |-> "ok", lines |-> l] : l \in SeqsUpTo(CommitLines, MaxLines) }

\* What `git ls-remote --heads origin <branch>` can do: exec rejects, or it
\* prints the branch's ref, or nothing when the remote has no such branch.
LsRemoteOutcomes ==
    { [outcome |-> "error", stdout |-> ""] }
    \cup { [outcome |-> "ok", stdout |-> t] : t \in {"", "1a2b3c refs/heads/feature"} }

VerificationError == [pushed |-> FALSE, unpushedCommits |-> <<"(verification error)">>]

\* verifyGitPush(cwd, branch), given what its two commands do.  ls-remote is run
\* only when the log shows no line.
VerifyGitPush(log, ls) ==
    IF log.outcome = "exec error" THEN VerificationError
    ELSE LET stdout == IF log.outcome = "git error" THEN <<"">> ELSE log.lines
             unpushedCommits == NonBlank(stdout) IN
         IF unpushedCommits # <<>>
         THEN [pushed |-> FALSE, unpushedCommits |-> unpushedCommits]
         ELSE IF ls.outcome = "error" THEN VerificationError
         ELSE IF ls.stdout = ""
         THEN [pushed |-> FALSE, unpushedCommits |-> <<"(branch not on remote)">>]
         ELSE [pushed |-> TRUE, unpushedCommits |-> <<>>]

VerifyCalls ==
    { [fn |-> "verifyGitPush", log |-> l, ls |-> r, returned |-> FALSE,
       result |-> VerificationError] : l \in LogOutcomes, r \in LsRemoteOutcomes }

\* The call of verifyGitPush returns.
VerifyGitPushReturns ==
    /\ call.fn = "verifyGitPush" /\ ~call.returned
    /\ call' = [call EXCEPT !.returned = TRUE, !.result = VerifyGitPush(call.log, call.ls)]
    /\ UNCHANGED <<request, ex, active, backlog, bare, now, enqLog, startLog, escaped,
                   maxConcurrent, clones, providers, session>>

\* The branches a repository can have and a request can name; a branch that
\* the request leaves out is "main" (createWorktree's default parameter).
BranchNames == {"main", "master", "feature"}

\* A git command of createWorktree, by what it names.
GitPrune == [cmd |-> "worktree prune", detach |-> FALSE, ref |-> "none"]
GitAdd(ref) == [cmd |-> "worktree add", detach |-> TRUE, ref |-> ref]

\* createWorktree(barePath, worktreesDir, branch) on a bare store with the
\* branches c.heads: the commands it runs, whether it returns a worktree and
\* the ref the worktree is at.  `git worktree add` fails on a ref the store does
\* not have and on a path that is taken.
CreateWorktree(c) ==
    LET adds(ref) == ref \in c.heads /\ c.pathFree IN
    IF ~c.pruneOk
    THEN [commands |-> <<GitPrune>>, returns |-> FALSE, ref |-> "none"]
    ELSE IF adds(c.branch)
    THEN [commands |-> <<GitPrune, GitAdd(c.branch)>>, returns |-> TRUE, ref |-> c.branch]
    ELSE [commands |-> <<GitPrune, GitAdd(c.branch), GitAdd("main")>>,
          returns |-> adds("main"), ref |-> IF adds("main") THEN "main" ELSE "none"]

\* The calls of createWorktree: the branch asked for, the branches of the bare
\* store, which of them is the repository's default branch, whether the prune
\* succeeds and whether the generated path is free.
WorktreeCalls ==
    { [fn |-> "createWorktree", branch |-> b, heads |-> h, default |-> d, pruneOk |-> p,
       pathFree |-> f, returned |-> FALSE,
       result |-> [commands |-> <<>>, returns |-> FALSE, ref |-> "none"]]
        : b \in BranchNames, h \in SUBSET BranchNames, d \in BranchNames,
          p \in BOOLEAN, f \in BOOLEAN }

\* The calls that can happen: a repository has its default branch.
ValidWorktreeCalls == { c \in WorktreeCalls : c.default \in c.heads }

\* The call of createWorktree returns or throws.
CreateWorktreeReturns ==
    /\ call.fn = "createWorktree" /\ ~call.returned
    /\ call' = [call EXCEPT !.returned = TRUE, !.result = CreateWorktree(call)]
    /\ UNCHANGED <<request, ex, active, backlog, bare, now, enqLog, startLog, escaped,
                   maxConcurrent, clones, providers, session>>

\* A POST /execute as the handler sees it.  auth: authentication is off
\* (BRIDGE_HTTP_NO_AUTH), or the Authorization header is missing, wrong or right.
\* body: over 1 MB, not JSON, the JSON value null, another JSON value that is
\* not an object (a number, a string, an array), or an object.  For an object,
\* prompt and workspace say what the fields hold: workspace "typeless" is an
\* object without a type, "non-object" a truthy value that is not a plain
\* object (a string, an array), "other" an object whose type is not supported.
HttpRequests ==
    { h \in [auth : {"off", "missing", "wrong", "right"},
             body : {"too large", "invalid", "null", "scalar", "object"},
             prompt : {"missing", "non-string", "blank", "ok"},
             workspace : {"absent", "git", "tempdir", "other", "typeless", "non-object"},
             callbackUrl : BOOLEAN] :
        h.body # "object" => (h.prompt = "missing" /\ h.workspace = "absent" /\ ~h.callbackUrl) }

\* The ExecutionRequest built from an accepted body (without its id): the
\* workspace is passed on as it came; setupWorkspace finds no supported type in
\* a typeless or non-object one.
RequestOf(h) ==
    [NoRequest EXCEPT !.prompt = "ok", !.callbackUrl = h.callbackUrl,
                      !.wsType = CASE h.workspace = "absent" -> "none"
                                   [] h.workspace \in {"git", "tempdir"} -> h.workspace
                                   [] OTHER -> "other",
                      !.repo = IF h.workspace = "git" THEN 1 ELSE 0]

\* What the handler does with a request: the status it answers with ("none"
\* when it throws before answering), and the request it hands to queue.submit.
Answer(status) == [status |-> status, threw |-> FALSE, submitted |-> FALSE, request |-> NoRequest]

\* The handler of POST /execute.  JSON.parse("null") is null, and reading
\* data.prompt of null throws a TypeError out of the async handler.
HandlePost(h) ==
    IF h.auth \in {"missing", "wrong"} THEN Answer("401")
    ELSE IF h.body = "too large" THEN Answer("413")
    ELSE IF h.body = "invalid" THEN Answer("400")
    ELSE IF h.body = "null" THEN [Answer("none") EXCEPT !.threw = TRUE]
    ELSE IF h.body = "scalar" \/ h.prompt # "ok" THEN Answer("400")
    ELSE IF h.workspace = "other" THEN Answer("400")
    ELSE [Answer("202") EXCEPT !.submitted = TRUE, !.request = RequestOf(h)]

HttpCalls ==
    { [fn |-> "POST /execute", h |-> h, returned |-> FALSE, result |-> Answer("none")]
        : h \in HttpRequests }

\* The handler of a POST /execute ends.
PostExecuteReturns ==
    /\ call.fn = "POST /execute" /\ ~call.returned
    /\ call' = [call EXCEPT !.returned = TRUE, !.result = HandlePost(call.h)]
    /\ UNCHANGED <<request, ex, active, backlog, bare, now, enqLog, startLog, escaped,
                   maxConcurrent, clones, providers, session>>

\* MCP server maps: server name -> spec, over a few names and specs.
McpNames == {"github", "memory"}
McpSpecs == {"stdio", "http"}
McpMaps == UNION { [d -> McpSpecs] : d \in SUBSET McpNames }
NoServers == [n \in {} |-> "stdio"]

\* The .mcp.json of the workspace: absent, not JSON, JSON without an mcpServers
\* key, or JSON with one.
McpFiles ==
    { [state |-> st, servers |-> NoServers] : st \in {"absent", "malformed", "no key"} }
    \cup { [state |-> "map", servers |-> m] : m \in McpMaps }

\* agent.mcpServers of the request: absent or a map.
McpRequests ==
    { [given |-> FALSE, servers |-> NoServers] }
    \cup { [given |-> TRUE, servers |-> m] : m \in McpMaps }

\* loadMcpServers(cwd): {} without a file or without the key; JSON.parse throws
\* on a malformed file.
LoadMcpServers(file) ==
    [threw |-> file.state = "malformed",
     servers |-> IF file.state = "map" THEN file.servers ELSE NoServers]

\* { ...target, ...source }: the properties of source are written over target's.
Spread(target, source) ==
    [n \in DOMAIN target \cup DOMAIN source |->
        IF n \in DOMAIN source THEN source[n] ELSE target[n]]

\* The merge as it would be with the operands the other way round.
MergeMcpOverlayWins(overlayMcp, requestMcp) == Spread(requestMcp, overlayMcp)

\* const mcpServers = { ...overlayMcp, ...requestMcp }
MergeMcp(overlayMcp, requestMcp) == Spread(overlayMcp, requestMcp)

\* The map put in the provider context, or the throw of loadMcpServers.
ProviderMcp(file, req) ==
    LET overlay == LoadMcpServers(file)
        requestMcp == IF req.given THEN req.servers ELSE NoServers IN
    IF overlay.threw THEN [threw |-> TRUE, mcpServers |-> NoServers]
    ELSE [threw |-> FALSE, mcpServers |-> MergeMcp(overlay.servers, requestMcp)]

McpCalls ==
    { [fn |-> "mcp merge", file |-> f, req |-> q, returned |-> FALSE,
       result |-> [threw |-> FALSE, mcpServers |-> NoServers]]
        : f \in McpFiles, q \in McpRequests }

\* executeRequest loads and merges the MCP servers.
McpMergeReturns ==
    /\ call.fn = "mcp merge" /\ ~call.returned
    /\ call' = [call EXCEPT !.returned = TRUE, !.result = ProviderMcp(call.file, call.req)]
    /\ UNCHANGED <<request, ex, active, backlog, bare, now, enqLog, startLog, escaped,
                   maxConcurrent, clones, providers, session>>

\* A directory tree as the map from the relative paths of its files to their
\* contents; the directories are those the paths imply.  No tree has a file
\* and a directory of the same name.
TreePaths == {"CLAUDE.md", "docs", "docs/a.md"}
Contents == {"hi", "yo"}
Parent(p) == IF p = "docs/a.md" THEN "docs" ELSE "."
Trees ==
    { t \in UNION { [d -> Contents] : d \in SUBSET TreePaths } :
        \A p \in DOMAIN t : Parent(p) \notin DOMAIN t }
NoFiles == [p \in {} |-> "hi"]

\* The top-level entry a path belongs to, as readdirSync lists it.
Entry(p) == IF Parent(p) = "." THEN p ELSE Parent(p)

\* cpSync(source entry, target entry, {recursive: true}) throws when one is a
\* directory and the other a file.
CpThrows(from, to, entry) ==
    \/ entry \in DOMAIN from /\ \E p \in DOMAIN to : Parent(p) = entry
    \/ entry \in DOMAIN to /\ \E p \in DOMAIN from : Parent(p) = entry

\* cpSync as it would be with force: false: a file that exists is kept.
CopyEntriesKeep(to, from, entries) ==
    [p \in DOMAIN to \cup { f \in DOMAIN from : Entry(f) \in entries } |->
        IF p \in DOMAIN to THEN to[p] ELSE from[p]]

\* The files of `from` under the given entries written into `to`, over the
\* files that are there.
CopyEntries(to, from, entries) ==
    [p \in DOMAIN to \cup { f \in DOMAIN from : Entry(f) \in entries } |->
        IF p \in DOMAIN from /\ Entry(p) \in entries THEN from[p] ELSE to[p]]

\* injectOverlays(worktreePath, repo, overlaysDir): nothing without an overlay
\* directory; else every entry is copied, in readdirSync's order (CLAUDE.md
\* before docs), until a copy throws.
InjectOverlays(worktree, overlay) ==
    IF ~overlay.exists THEN [threw |-> FALSE, files |-> worktree]
    ELSE IF CpThrows(overlay.files, worktree, "CLAUDE.md")
    THEN [threw |-> TRUE, files |-> worktree]
    ELSE IF CpThrows(overlay.files, worktree, "docs")
    THEN [threw |-> TRUE, files |-> CopyEntries(worktree, overlay.files, {"CLAUDE.md"})]
    ELSE [threw |-> FALSE,
          files |-> CopyEntries(worktree, overlay.files, {"CLAUDE.md", "docs"})]

\* setupWorkspace: if (workspace.overlays !== false) injectOverlays(...)
SetupOverlays(c) ==
    IF c.overlays # "false" THEN InjectOverlays(c.worktree, c.overlay)
    ELSE [threw |-> FALSE, files |-> c.worktree]

\* The calls: the files of the fresh worktree, the overlay directory of the
\* slug (absent, or a tree) and workspace.overlays.
OverlayDirs ==
    { [exists |-> FALSE, files |-> NoFiles] } \cup { [exists |-> TRUE, files |-> t] : t \in Trees }
OverlayCalls ==
    { [fn |-> "injectOverlays", worktree |-> w, overlay |-> o, overlays |-> f,
       returned |-> FALSE, result |-> [threw |-> FALSE, files |-> w]]
        : w \in Trees, o \in OverlayDirs, f \in {"undefined", "true", "false"} }

\* The overlay step of setupWorkspace ends.
InjectOverlaysReturns ==
    /\ call.fn = "injectOverlays" /\ ~call.returned
    /\ call' = [call EXCEPT !.returned = TRUE, !.result = SetupOverlays(call)]
    /\ UNCHANGED <<request, ex, active, backlog, bare, now, enqLog, startLog, escaped,
                   maxConcurrent, clones, providers, session>>

\* The directories of the disk that matter to a tempdir workspace: the
\* process's current directory and the names mkdtempSync can generate.
TempNames == {"bridge-Ab12", "bridge-Cd34"}
DirNames == {"cwd"} \cup TempNames
Absent == [exists |-> FALSE, files |-> NoFiles]
Present(files) == [exists |-> TRUE, files |-> files]

\* seedFiles: any map from relative paths to contents, also one that names a
\* path both as a file and as a directory.
SeedMaps == UNION { [d -> Contents] : d \in SUBSET TreePaths }

\* The disk before the call: the current directory, and the tempdirs of other
\* executions; a name is left for mkdtempSync.
Disks ==
    { [d \in DirNames |-> IF d = "cwd" THEN Present([p \in {"CLAUDE.md"} |-> "hi"])
                          ELSE IF d \in others THEN Present([p \in {"docs"} |-> "yo"])
                          ELSE Absent]
        : others \in (SUBSET TempNames) \ {TempNames} }

\* mkdtempSync as it would be if it took a name whether or not it is in use.
MkdtempAny(disk) == TempNames

\* The names mkdtempSync can return: it creates a directory that did not exist.
Mkdtemp(disk) == { d \in TempNames : ~disk[d].exists }

\* What the seeding loop leaves in the new directory: every entry's file, its
\* parents created; or, when mkdirSync or writeFileSync throws on a path that
\* is a file for one entry and a directory for another, some of the files.
WriteSeeds(seedFiles) ==
    IF seedFiles \in Trees THEN { [threw |-> FALSE, files |-> seedFiles] }
    ELSE { [threw |-> TRUE, files |-> t] :
             t \in { u \in Trees : /\ DOMAIN u \subseteq DOMAIN seedFiles
                                   /\ \A p \in DOMAIN u : u[p] = seedFiles[p] } }

\* rmSync(dir, {recursive: true, force: true}) when it returns.
RmSync(disk, dir) == [disk EXCEPT ![dir] = Absent]

SetupCalls ==
    { [fn |-> "setupWorkspace", workspace |-> w, seedFiles |-> sd, before |-> dk, disk |-> dk,
       step |-> "called", cwd |-> "none"]
        : w \in {"none", "tempdir"}, sd \in SeedMaps, dk \in Disks }

\* The calls that can happen: only a tempdir workspace has seed files.
ValidSetupCalls == { c \in SetupCalls : c.workspace = "none" => c.seedFiles = NoFiles }

\* setupWorkspace(undefined) and setupWorkspace({type: "tempdir", seedFiles})
\* return their handle or throw; all of it is synchronous.
SetupWorkspaceReturns ==
    /\ call.fn = "setupWorkspace" /\ call.step = "called"
    /\ IF call.workspace = "none"
       THEN call' = [call EXCEPT !.step = "set up", !.cwd = "cwd"]
       ELSE \/ call' = [call EXCEPT !.step = "setup threw"]
            \/ \E dir \in Mkdtemp(call.disk), w \in WriteSeeds(call.seedFiles) :
                  call' = [call EXCEPT !.step = IF w.threw THEN "setup threw" ELSE "set up",
                                        !.cwd = IF w.threw THEN "none" ELSE dir,
                                        !.disk = [call.disk EXCEPT ![dir] = Present(w.files)]]
    /\ UNCHANGED <<request, ex, active, backlog, bare, now, enqLog, startLog, escaped,
                   maxConcurrent, clones, providers, session>>

\* The handle's cleanup is called: a no-op without a workspace; rmSync of the
\* tempdir, which may throw.
CleanupReturns ==
    /\ call.fn = "setupWorkspace" /\ call.step = "set up"
    /\ IF call.workspace = "none"
       THEN call' = [call EXCEPT !.step = "disposed"]
       ELSE \/ call' = [call EXCEPT !.step = "disposed", !.disk = RmSync(call.disk, call.cwd)]
            \/ call' = [call EXCEPT !.step = "dispose threw"]
    /\ UNCHANGED <<request, ex, active, backlog, bare, now, enqLog, startLog, escaped,
                   maxConcurrent, clones, providers, session>>

HelperCalls ==
    VerifyCalls \cup ValidWorktreeCalls \cup HttpCalls \cup McpCalls \cup OverlayCalls
    \cup ValidSetupCalls

HelperInit == Boot /\ call \in HelperCalls /\ session = NoSession

HelperNext ==
    \/ VerifyGitPushReturns
    \/ CreateWorktreeReturns
    \/ PostExecuteReturns
    \/ McpMergeReturns
    \/ InjectOverlaysReturns
    \/ SetupWorkspaceReturns
    \/ CleanupReturns

\* One call of a helper, over every combination of what its environment does.
HelperSpec == HelperInit /\ [][HelperNext]_vars

\* ------------------------------------------------------- HTTP admission

\* The handler of POST /execute on a request it accepts, after its body was
\* read: it builds the ExecutionRequest, calls queue.submit and only then writes
\* the 202; the three are one synchronous run, the response is its last act.
PostExecute(r, h) ==
    /\ HandlePost(h).submitted
    /\ Submit(r, HandlePost(h).request)

\* The requests the handler accepts and whose execution needs no git.
HttpNoGit == { h \in HttpRequests : HandlePost(h).submitted /\ h.workspace # "git" }

HttpNext ==
    \/ \E r \in Ids, h \in HttpNoGit : PostExecute(r, h)
    \/ LiveProgress

\* The HTTP transport in front of the queue and the executions it admits.
HttpSpec == Init /\ [][HttpNext]_vars

\* ------------------------------------------------------ memory Session

CloseCalls == 1..MaxCloseCalls

\* flushIntervalMs: 0 disables the timer, 5000 is the constructor's default.
FlushIntervals == {0, 5000}

\* A call of close() that was not made yet.
NoCloseCall == [pc |-> "idle", awaits |-> 0]

\* new Session(client, sessionId, options): an empty buffer, no timer, not
\* closed.  turns counts the turns accepted so far (turn n is the n-th), refused
\* the addTurn calls that threw, recordTurns lists the requests issued by flush,
\* closeSession counts the close requests issued.
NewSession(size, interval) ==
    [sessionId |-> 1, closed |-> FALSE, buffer |-> <<>>, flushTimer |-> "null",
     bufferSize |-> size, flushIntervalMs |-> interval,
     turns |-> 0, refused |-> 0, recordTurns |-> <<>>, closeSession |-> 0,
     close |-> [c \in CloseCalls |-> NoCloseCall]]

\* flush() up to its return: nothing on an empty buffer; otherwise the buffer is
\* emptied (splice(0)) and one recordTurns request carries its turns.
Flush(s) ==
    IF s.buffer = <<>>
    THEN s
    ELSE [s EXCEPT !.buffer = <<>>,
                   !.recordTurns = Append(@, [turns |-> s.buffer, status |-> "pending"])]

\* addTurn(turn): throws on a closed session; otherwise pushes the turn, arms
\* the interval timer when none is armed, and flushes when the buffer is full.
AddTurn(s) ==
    IF s.closed
    THEN [s EXCEPT !.refused = @ + 1]
    ELSE LET pushed == [s EXCEPT !.turns = @ + 1, !.buffer = Append(@, s.turns + 1)]
             timed == IF pushed.flushTimer = "null" /\ pushed.flushIntervalMs > 0
                      THEN [pushed EXCEPT !.flushTimer = "active"]
                      ELSE pushed IN
         IF Len(timed.buffer) >= timed.bufferSize THEN Flush(timed) ELSE timed

\* close() up to `await this.flush()`: throws on a closed session; otherwise
\* clears the timer and starts the flush.  awaits: the recordTurns request the
\* call waits for, 0 when the buffer was empty.
Close(s, c) ==
    IF s.closed
    THEN [s EXCEPT !.close[c].pc = "threw"]
    ELSE LET cleared == [s EXCEPT !.flushTimer = "null"]
             flushed == Flush(cleared) IN
         [flushed EXCEPT !.close[c] =
             [pc |-> "flushing",
              awaits |-> IF cleared.buffer = <<>> THEN 0 ELSE Len(flushed.recordTurns)]]

\* close() after its await: a failed flush rejects the call; otherwise closed is
\* set and the closeSession request is issued.
AfterFlush(s, c) ==
    IF s.close[c].awaits > 0 /\ s.recordTurns[s.close[c].awaits].status = "failed"
    THEN [s EXCEPT !.close[c].pc = "rejected"]
    ELSE [s EXCEPT !.closed = TRUE, !.closeSession = @ + 1, !.close[c].pc = "closing"]

\* A step of the Session; the bridge does not move.
SessionStep(s) ==
    /\ session' = s
    /\ UNCHANGED <<request, ex, active, backlog, bare, now, enqLog, startLog, escaped,
                   maxConcurrent, clones, providers, call>>

\* A caller calls addTurn.
AddTurnCall ==
    /\ session.turns + session.refused < MaxAdds
    /\ SessionStep(AddTurn(session))

\* The interval timer fires: void this.flush().
TimerFlush ==
    /\ session.flushTimer = "active"
    /\ SessionStep(Flush(session))

\* A caller calls close().
CloseCall(c) ==
    /\ session.close[c].pc = "idle"
    /\ \A o \in CloseCalls : o < c => session.close[o].pc # "idle"
    /\ SessionStep(Close(session, c))

\* The memory API answers a recordTurns request, or the request fails.  A
\* failure of a flush that nobody awaits (timer, full buffer) has no handler.
RecordTurnsSettle(k, ok) ==
    /\ k \in DOMAIN session.recordTurns
    /\ session.recordTurns[k].status = "pending"
    /\ SessionStep([session EXCEPT !.recordTurns[k].status = IF ok THEN "ok" ELSE "failed"])

\* The flush awaited by close() has settled: close() continues.
CloseResume(c) ==
    /\ session.close[c].pc = "flushing"
    /\ session.close[c].awaits > 0 =>
          session.recordTurns[session.close[c].awaits].status # "pending"
    /\ SessionStep(AfterFlush(session, c))

\* The memory API answers the closeSession request, or the request fails:
\* close()'s promise settles the same way.
CloseSessionSettle(c, ok) ==
    /\ session.close[c].pc = "closing"
    /\ SessionStep([session EXCEPT !.close[c].pc = IF ok THEN "resolved" ELSE "rejected"])

SessionInit ==
    /\ Boot
    /\ call = NoCall
    /\ session \in { NewSession(size, interval) :
                        size \in 1..MaxBufferSize, interval \in FlushIntervals }

SessionNext ==
    \/ AddTurnCall
    \/ TimerFlush
    \/ \E c \in CloseCalls : CloseCall(c)
    \/ \E k \in 1..MaxAdds, ok \in BOOLEAN : RecordTurnsSettle(k, ok)
    \/ \E c \in CloseCalls : CloseResume(c)
    \/ \E c \in CloseCalls, ok \in BOOLEAN : CloseSessionSettle(c, ok)

\* One Session used by callers that need not await one call before the next.
SessionSpec == SessionInit /\ [][SessionNext]_vars

\* ------------------------------------------------------------------ claims

Running == { r \in Ids : ex[r].pc \notin {"idle", "queued", "done"} }
Submitted == { r \in Ids : ex[r].pc # "idle" }
NoCompletionYet == \A r \in Ids : ex[r].pc # "done"
Min(a, b) == IF a < b THEN a ELSE b
Max(a, b) == IF a > b THEN a ELSE b
Range(f) == { f[i] : i \in DOMAIN f }

\* C1: in every reachable state the queue's active count is between 0 and the
\* configured maximum (and it counts exactly the executions in progress).
C1_ActiveBounded ==
    /\ active \in 0..maxConcurrent
    /\ active = Cardinality(Running)

\* C1 witness: the queue is full, a request waits, and an execution has completed.
C1_Witness ==
    /\ active = maxConcurrent
    /\ backlog # <<>>
    /\ \E r \in Ids : ex[r].pc = "done"

\* C2: the number of provider.run calls started and not yet settled never exceeds
\* the configured maximum.
C2_ProviderRunsBounded ==
    Cardinality({ r \in Ids : ex[r].providerPromise = "running" }) <= maxConcurrent

\* C3: an execution whose setup returned a handle invokes the disposal action
\* exactly once before it ends, never twice; without a handle it is not invoked.
C3_DisposedExactlyOnce ==
    \A r \in Ids :
        /\ ex[r].disposals <= 1
        /\ ex[r].cleanup = "undefined" => ex[r].disposals = 0
        /\ (ex[r].pc = "settled" /\ ex[r].cleanup # "undefined") => ex[r].disposals = 1
        /\ ex[r].disposals = 1 => ex[r].pc \in {"cl_remove", "cl_prune", "settled"}

\* C3 witness: an execution with a worktree handle ended after the timer won and
\* the error callback was sent; its disposal ran.
C3_Witness ==
    \E r \in Ids :
        /\ ex[r].pc = "settled"
        /\ ex[r].cleanup = "worktree"
        /\ ex[r].timeoutId = "fired"
        /\ Len(ex[r].callbacks) = 1
        /\ ex[r].callbacks[1].status = "error"
        /\ ex[r].disposals = 1

\* C4: no worktree created for an execution is still on disk once the execution
\* has ended.
C4_NoWorktreeOutlives ==
    \A r \in Ids :
        ex[r].pc \in {"settled", "done"} => ~(ex[r].onDisk /\ ex[r].worktreePath > 0)

\* C5: the promise returned by executeRequest never rejects.
C5_NeverRejects == \A r \in Ids : ex[r].promise # "rejected"

\* C6: backlog entries begin execution in the order they entered the backlog,
\* none skipped: the released entries are a prefix of the entries enqueued, and
\* what still waits is the rest, in order.
C6_Fifo ==
    LET released == SelectSeq(startLog, LAMBDA x : x \in Range(enqLog)) IN
    /\ Len(released) <= Len(enqLog)
    /\ released = SubSeq(enqLog, 1, Len(released))
    /\ backlog = SubSeq(enqLog, Len(released) + 1, Len(enqLog))

\* C6 witness: two requests waited in the backlog together and both have begun.
C6_Witness ==
    /\ Len(enqLog) >= 2
    /\ backlog = <<>>
    /\ \A i \in DOMAIN enqLog : enqLog[i] \in Range(startLog)

\* C7: a submit with a free slot starts the execution (active + 1, backlog
\* unchanged); a submit with no free slot appends to the backlog's tail (active
\* unchanged); so with n submissions and no completion, active = min(n, max) and
\* queued = max(0, n - max).
C7_SubmitStep ==
    \A r \in Ids :
        (ex[r].pc = "idle" /\ ex'[r].pc # "idle") =>
            IF active < maxConcurrent
            THEN /\ active' = active + 1
                 /\ backlog' = backlog
                 /\ ex'[r].pc # "queued"
            ELSE /\ active' = active
                 /\ backlog' = Append(backlog, r)
                 /\ ex'[r].pc = "queued"
C7_Status ==
    NoCompletionYet =>
        /\ active = Min(Cardinality(Submitted), maxConcurrent)
        /\ Len(backlog) = Max(0, Cardinality(Submitted) - maxConcurrent)
\* C7: the admission rule of submit, as a step property and as the status seen.
C7_Admission == []C7_Status /\ [][C7_SubmitStep]_vars

\* C7 witness: more submissions than slots and no completion yet.
C7_Witness ==
    /\ NoCompletionYet
    /\ Cardinality(Submitted) = NumReq
    /\ maxConcurrent = MaxConcurrent
    /\ active = MaxConcurrent
    /\ Len(backlog) = NumReq - MaxConcurrent

\* C8: a completion, whatever the outcome, frees the slot and, when the backlog
\* is not empty, starts its head (active as before, queued one less); so no
\* request waits while a slot is free.
C8_CompleteStep ==
    \A r \in Ids :
        (ex[r].pc = "settled" /\ ex'[r].pc = "done") =>
            IF backlog = <<>>
            THEN active' = active - 1 /\ backlog' = backlog
            ELSE /\ active' = active
                 /\ backlog' = Tail(backlog)
                 /\ ex'[Head(backlog)].pc \notin {"idle", "queued"}
C8_NoIdleSlot == backlog # <<>> => active = maxConcurrent
\* C8: the completion rule of the queue, as a step property and its consequence.
C8_Completion == []C8_NoIdleSlot /\ [][C8_CompleteStep]_vars

\* C8 witness: an execution has completed, the request at the head of the backlog
\* has begun in its place and another one still waits with every slot taken.
C8_Witness ==
    /\ \E r \in Ids : ex[r].pc = "done"
    /\ enqLog # <<>>
    /\ enqLog[1] \in Range(startLog)
    /\ backlog # <<>>
    /\ active = maxConcurrent

\* C9: an execution whose promise rejects releases its slot like any other and
\* nothing is raised out of the queue; under fairness every request placed in
\* the backlog eventually begins execution.
C9_ReleaseStep ==
    \A r \in Ids :
        (ex[r].pc = "settled" /\ ex'[r].pc = "done") =>
            active' + Len(backlog') = active + Len(backlog) - 1
\* C9: a rejected execution releases its slot, nothing escapes the queue, and
\* under fairness every queued request begins.
C9_ForwardProgress ==
    /\ [](escaped = 0)
    /\ [][C9_ReleaseStep]_vars
    /\ \A r \in Ids : (ex[r].pc = "queued") ~> (r \in Range(startLog))

\* C9 witness: an execution whose promise rejected has completed and the request
\* that waited behind it has begun.
C9_Witness ==
    /\ \E r \in Ids : ex[r].pc = "done" /\ ex[r].promise = "rejected"
    /\ maxConcurrent = 1
    /\ Len(startLog) = 2
    /\ enqLog # <<>>
    /\ enqLog[1] \in Range(startLog)

\* C10: for every repo slug at most one clone-or-fetch is in flight.
C10_OneBareOpPerSlug ==
    \A s \in Slugs :
        Cardinality({ r \in Ids : ex[r].pc = "bare" /\ request[r].repo = s }) <= 1
\* No step removes a bare repository that exists.
C11_BareNeverRemoved == \A s \in Slugs : bare[s] => bare'[s]
\* C11: for every slug a bare clone is started at most once over the life of the
\* process (also when two executions reference a repository not yet cloned at
\* the same time), and no step removes a bare repository that exists.
C11_BareCreatedOnce ==
    /\ [](\A s \in Slugs : clones[s] <= 1)
    /\ [][C11_BareNeverRemoved]_vars

\* C12: no two executions hold the same worktree path: the path an execution
\* generated in createWorktree, or whose worktree it has on disk, is no other
\* execution's.
HoldsPath(r) ==
    /\ ex[r].worktreePath > 0
    /\ ex[r].pc \in {"wt_prune", "wt_add", "wt_add_main"} \/ ex[r].onDisk
C12_WorktreePathsDistinct ==
    \A r1, r2 \in Ids :
        (r1 # r2 /\ HoldsPath(r1) /\ HoldsPath(r2)) =>
            ex[r1].worktreePath # ex[r2].worktreePath

\* The lifecycle of an execution: the place of each state in
\* Created -> ValidatingInput -> SettingUpWorkspace -> Running ->
\* {Completed | TimedOut | Failed} -> CleaningUp -> Done.
Terminal == {"Completed", "TimedOut", "Failed"}
LifecycleRank(p) ==
    CASE p = "Created" -> 1
      [] p = "ValidatingInput" -> 2
      [] p = "SettingUpWorkspace" -> 3
      [] p = "Running" -> 4
      [] p \in Terminal -> 5
      [] p = "CleaningUp" -> 6
      [] p = "Done" -> 7

\* The lifecycle states in which an execution can be at a position of the code.
StatesAt(pc) ==
    CASE pc \in {"setup_ret", "setup_throw", "bare", "wt_prune", "wt_add", "wt_add_main",
                 "cfg_name", "cfg_email"} -> {"SettingUpWorkspace"}
      [] pc = "race" -> {"Running"}
      [] pc \in {"verify", "cb"} -> {"Completed"}
      [] pc = "cb_err" -> {"TimedOut", "Failed"}
      [] pc = "cb_guard" -> {"ValidatingInput"}
      [] pc \in {"cl_remove", "cl_prune"} -> {"CleaningUp"}
      [] pc = "settled" -> {"Done"}

\* C13: every execution moves only forward along Created -> ValidatingInput ->
\* SettingUpWorkspace -> Running -> {Completed | TimedOut | Failed} -> CleaningUp
\* -> Done, revisits no state, and after Completed, TimedOut or Failed passes
\* through CleaningUp before Done.
C13_LifecycleOrder ==
    \A r \in Ids :
        LET t == ex[r].trail IN
        /\ ex[r].pc \in {"idle", "queued", "done"} <=> t = <<>>
        /\ t # <<>> =>
              /\ Len(t) >= 2 /\ t[1] = "Created" /\ t[2] = "ValidatingInput"
              /\ t[Len(t)] \in StatesAt(ex[r].pc)
        /\ \A i \in 1..(Len(t) - 1) :
              /\ LifecycleRank(t[i]) < LifecycleRank(t[i + 1])
              /\ t[i] \in Terminal => t[i + 1] = "CleaningUp"
              /\ t[i] = "CleaningUp" => t[i + 1] = "Done"
              /\ t[i + 1] = "Running" => t[i] = "SettingUpWorkspace"

\* C13 witness: an execution went through the whole chain by way of TimedOut,
\* with a worktree to dispose of.
C13_Witness ==
    \E r \in Ids :
        /\ ex[r].trail = <<"Created", "ValidatingInput", "SettingUpWorkspace", "Running",
                           "TimedOut", "CleaningUp", "Done">>
        /\ ex[r].cleanup = "worktree"
        /\ ex[r].disposals = 1

\* C14: an execution whose prompt is missing or blank sets up no workspace,
\* resolves and invokes no provider; all it does is send one error callback
\* (status error, usage zero) when a callback URL was supplied, nothing otherwise.
C14_ValidationShortCircuit ==
    \A r \in Ids :
        (request[r].prompt = "blank" /\ ex[r].pc \notin {"idle", "queued"}) =>
            /\ ex[r].pc \in {"cb_guard", "settled"}
            /\ \A i \in DOMAIN ex[r].trail :
                  ex[r].trail[i] \in {"Created", "ValidatingInput", "Done"}
            /\ ex[r].cleanup = "undefined" /\ ex[r].disposals = 0
            /\ ex[r].bareOp = "none" /\ ex[r].worktreePath = 0 /\ ~ex[r].onDisk
            /\ ex[r].providerPromise = "none" /\ ex[r].timeoutId = "unset"
            /\ Len(ex[r].callbacks) = IF request[r].callbackUrl THEN 1 ELSE 0
            /\ \A i \in DOMAIN ex[r].callbacks :
                  /\ ex[r].callbacks[i].status = "error"
                  /\ ex[r].callbacks[i].usage = 0
                  /\ ex[r].callbacks[i].error = Failure("empty prompt")
            /\ ex[r].posts = Len(ex[r].callbacks)
            /\ ex[r].pc = "settled" => ex[r].promise = "resolved"
            /\ (\A o \in Ids \ {r} : ex[o].pc = "idle") =>
                  \A s \in Slugs : ~bare[s] /\ clones[s] = 0

\* C14 witness: a blank prompt with a callback URL ended after its one callback.
C14_Witness ==
    \E r \in Ids :
        /\ request[r].prompt = "blank"
        /\ request[r].callbackUrl
        /\ ex[r].pc = "settled"
        /\ ex[r].posts = 1

\* The timeout a request is entitled to: its own agent.limits.timeoutMs when
\* supplied, else the process default.
ExpectedTimeout(q) ==
    IF \E t \in q.timeoutMs : TRUE THEN CHOOSE t \in q.timeoutMs : TRUE ELSE ConfigTimeout

\* The timer is armed with the resolved timeout, and an execution whose timer
\* fired ends with an error whose message names that timeout.
C15_TimedOutResult ==
    \A r \in Ids :
        /\ ex[r].timeoutId = "pending" => ex[r].timeout = ExpectedTimeout(request[r])
        /\ (ex[r].timeoutId = "fired" /\ ex[r].pc # "done") =>
              LET named == [NoError EXCEPT !.kind = "timeout",
                                           !.ms = ExpectedTimeout(request[r])] IN
              /\ ex[r].pc \in {"cb_err", "cl_remove", "cl_prune", "settled"}
              /\ ex[r].err = named
              /\ \E i \in DOMAIN ex[r].trail : ex[r].trail[i] = "TimedOut"
              /\ Len(ex[r].callbacks) = IF request[r].callbackUrl THEN 1 ELSE 0
              /\ \A i \in DOMAIN ex[r].callbacks :
                    /\ ex[r].callbacks[i].status = "error"
                    /\ ex[r].callbacks[i].usage = 0
                    /\ ex[r].callbacks[i].error = named

\* C15: the timer fires at the resolved timeout (the request's timeoutMs when
\* supplied, else the process default); if the provider has not settled by then,
\* even if it never settles, the execution ends with status error and a message
\* that names the timeout in ms, and after callback and cleanup reaches Done.
C15_TimeoutBoundsRun ==
    /\ []C15_TimedOutResult
    /\ \A r \in Ids : (ex[r].pc = "race") ~> (ex[r].pc \in {"settled", "done"})

\* C15 witness: with timeoutMs 100 supplied and a provider that has not settled,
\* the execution ended after the error callback naming 100 ms and the disposal.
C15_Witness ==
    \E r \in Ids :
        /\ ex[r].pc = "settled"
        /\ request[r].timeoutMs = {100}
        /\ ex[r].providerPromise = "running"
        /\ ex[r].timeoutId = "fired"
        /\ Len(ex[r].callbacks) = 1
        /\ ex[r].callbacks[1].error.ms = 100
        /\ ex[r].disposals = 1

\* C16: once the race between the provider and the timer has settled, no
\* timeout timer of the execution is pending: a timer is pending only while the
\* execution waits in the race, and one that fired did so there, winning it.
C16_TimerCleared ==
    \A r \in Ids :
        /\ ex[r].timeoutId = "pending" => ex[r].pc = "race"
        /\ ex[r].pc = "race" => ex[r].timeoutId = "pending"
        /\ ex[r].timeoutId = "fired" => ex[r].err.kind = "timeout"
        /\ ex[r].providerPromise \in {"success", "error", "rejected"} =>
              ex[r].timeoutId = "cleared"

\* C16 witness: the provider rejected, the timer was cleared and the execution
\* ended.
C16_Witness ==
    \E r \in Ids :
        /\ ex[r].pc = "settled"
        /\ ex[r].providerPromise = "rejected"
        /\ ex[r].timeoutId = "cleared"

\* C17: when the provider's result has status error the callback delivered has
\* status error; a callback has status success only if the provider reported
\* success and push verification did not fail.
C17_ProviderErrorFails ==
    \A r \in Ids :
        \A i \in DOMAIN ex[r].callbacks :
            /\ ex[r].providerPromise = "error" => ex[r].callbacks[i].status = "error"
            /\ ex[r].callbacks[i].status = "success" =>
                  ex[r].providerPromise = "success" /\ ~ex[r].pushVerificationFailed

\* The requests entitled to push verification: a git workspace, a branch other
\* than the default, metadata.expectBranchPush exactly true.
OptedIn(q) == q.wsType = "git" /\ q.branch = "feature" /\ q.expectBranchPush = "true"
Performed(e) == e.pc = "verify" \/ e.verification # "none"
Completed(e) == \E i \in DOMAIN e.trail : e.trail[i] = "Completed"

\* C18: push verification is performed if and only if the provider run completed
\* and the request opted in (git workspace, non-default branch, expectBranchPush
\* exactly true); when it reports not pushed the callback has status error, its
\* error text lists the reported commits and its usage is the provider's; when it
\* is not performed or reports pushed the status is not downgraded.
C18_PushVerification ==
    \A r \in Ids :
        LET e == ex[r]
            q == request[r] IN
        e.pc \notin {"idle", "queued", "done"} =>
            /\ Performed(e) <=> (Completed(e) /\ OptedIn(q))
            /\ Performed(e) => e.providerPromise \in {"success", "error"}
            /\ e.pushVerificationFailed <=> e.verification = "not pushed"
            /\ (Completed(e) /\ e.pc # "verify") =>
                  /\ Len(e.callbacks) = IF q.callbackUrl THEN 1 ELSE 0
                  /\ \A i \in DOMAIN e.callbacks :
                        /\ e.callbacks[i].usage = ReportedUsage(e.providerPromise)
                        /\ IF e.verification = "not pushed"
                           THEN /\ e.callbacks[i].status = "error"
                                /\ e.callbacks[i].error.kind = "push"
                                /\ e.callbacks[i].error.commits \in UnpushedReports
                                /\ e.callbacks[i].error = e.pushVerificationError
                           ELSE /\ e.callbacks[i].status = "success"
                                /\ e.callbacks[i].error = NoError

\* C18 witness: the provider reported success, verification found the branch
\* missing on the remote, and the execution ended after its error callback.
C18_Witness ==
    \E r \in Ids :
        /\ ex[r].pc = "settled"
        /\ ex[r].providerPromise = "success"
        /\ ex[r].verification = "not pushed"
        /\ Len(ex[r].callbacks) = 1
        /\ ex[r].callbacks[1].status = "error"
        /\ ex[r].callbacks[1].error.commits = "(branch not on remote)"
        /\ ex[r].callbacks[1].usage = 2

\* C19: on every path through executeRequest exactly one callback is attempted
\* when a callback URL was supplied and none when it was not; no execution
\* produces two callbacks, of different kinds or of the same.
C19_OneResult ==
    \A r \in Ids :
        /\ Len(ex[r].callbacks) <= 1
        /\ ~request[r].callbackUrl => ex[r].callbacks = <<>>
        /\ ex[r].pc \in {"cb", "cb_err", "cb_guard"} => Len(ex[r].callbacks) = 1
        /\ ex[r].pc \in {"cl_remove", "cl_prune", "settled"} =>
              Len(ex[r].callbacks) = IF request[r].callbackUrl THEN 1 ELSE 0

\* C19 witness: a request for an unknown provider ended after its one error
\* callback.
C19_Witness ==
    \E r \in Ids :
        /\ ex[r].pc = "settled"
        /\ request[r].provider = "unknown"
        /\ Len(ex[r].callbacks) = 1
        /\ ex[r].callbacks[1].error.kind = "unknown provider"

\* The step in which sendCallback returns: nothing is sent again, the payload
\* stays as it was computed, the caller goes on as after a delivery (the guard
\* returns, the try statement enters its finally block and runs the disposal).
C20_DeliveryStep ==
    \A r \in Ids :
        (ex[r].delivery = "none" /\ ex'[r].delivery # "none") =>
            /\ ex'[r].delivery = request[r].endpoint
            /\ ex'[r].callbacks = ex[r].callbacks
            /\ ex'[r].posts = ex[r].posts
            /\ ex'[r].err = ex[r].err
            /\ ex'[r].pushVerificationFailed = ex[r].pushVerificationFailed
            /\ IF ex[r].pc = "cb_guard"
               THEN ex'[r].trail = Append(ex[r].trail, "Done")
               ELSE /\ ex'[r].trail \in { Append(ex[r].trail, "CleaningUp"),
                                          ex[r].trail \o <<"CleaningUp", "Done">> }
                    /\ ex'[r].disposals = IF ex[r].cleanup = "undefined" THEN 0 ELSE 1
C20_OnePost ==
    \A r \in Ids :
        /\ ex[r].posts = Len(ex[r].callbacks)
        /\ ex[r].posts <= 1
        /\ ex[r].pc \in {"cb", "cb_err", "cb_guard"} => ex[r].delivery = "none"

\* C20: each send issues exactly one outbound request and never retries; it
\* returns normally whether the request succeeded, got a non-2xx status, failed
\* in transport or was aborted; a failed delivery changes neither the status
\* already computed nor whether the disposal runs.
C20_DeliveryIsolated == []C20_OnePost /\ [][C20_DeliveryStep]_vars

\* C20 witness: the endpoint answered with a non-2xx status; the success payload
\* was sent once and the worktree's disposal ran.
C20_Witness ==
    \E r \in Ids :
        /\ ex[r].pc = "settled"
        /\ ex[r].delivery = "non2xx"
        /\ ex[r].posts = 1
        /\ ex[r].callbacks[1].status = "success"
        /\ ex[r].cleanup = "worktree"
        /\ ex[r].disposals = 1

\* The errors that end an execution before a provider result exists.
EarlyFailures == {"empty prompt", "setup", "mcp", "unknown provider", "provider", "timeout"}

\* C21: every callback carries the request's id and metadata unchanged; an error
\* callback that stems from validation, setup failure, unknown provider, provider
\* exception or timeout has usage zero (and no result); a success callback
\* carries exactly the usage and the output the provider reported.
C21_PayloadContent ==
    \A r \in Ids :
        \A i \in DOMAIN ex[r].callbacks :
            LET p == ex[r].callbacks[i] IN
            /\ p.id = r /\ p.id = request[r].id
            /\ p.metadata = [expectBranchPush |-> request[r].expectBranchPush]
            /\ p.error.kind \in EarlyFailures =>
                  p.status = "error" /\ p.usage = 0 /\ p.result = "undefined"
            /\ p.status = "success" =>
                  /\ ex[r].providerPromise \in {"success", "error"}
                  /\ p.usage = (IF ex[r].providerPromise = "success" THEN 2 ELSE 1)
                  /\ p.result = (IF ex[r].providerPromise = "success"
                                 THEN "answer" ELSE "partial")
                  /\ p.error = NoError

\* C21 witness: a request whose metadata opts in to push verification timed out;
\* its error callback was sent and the execution ended.
C21_Witness ==
    \E r \in Ids :
        /\ ex[r].pc = "settled"
        /\ request[r].expectBranchPush = "true"
        /\ ex[r].timeoutId = "fired"
        /\ Len(ex[r].callbacks) = 1
        /\ ex[r].callbacks[1].metadata.expectBranchPush = "true"
        /\ ex[r].callbacks[1].usage = 0

\* The registry after boot.
Registered == {"claude-code"}

C22_RegistryStep == providers' = providers
C22_UnknownProvider ==
    \A r \in Ids :
        LET e == ex[r]
            q == request[r] IN
        /\ providers = Registered
        /\ e.disposals <= 1
        /\ (q.provider \notin Registered /\ e.pc \notin {"idle", "queued"}) =>
              /\ e.providerPromise = "none" /\ e.timeoutId = "unset"
              /\ \A i \in DOMAIN e.trail : e.trail[i] # "Running"
              /\ e.pc \notin {"race", "verify", "cb"}
              /\ e.cleanup # "undefined" =>
                    /\ e.err.kind = "unknown provider"
                    /\ Len(e.callbacks) = IF q.callbackUrl THEN 1 ELSE 0
                    /\ \A i \in DOMAIN e.callbacks :
                          /\ e.callbacks[i].status = "error"
                          /\ e.callbacks[i].error = Failure("unknown provider")
                    /\ e.disposals = IF e.pc = "cb_err" THEN 0 ELSE 1
        /\ (q.provider \in Registered /\ q.prompt = "ok") =>
              /\ e.err.kind # "unknown provider"
              /\ (e.cleanup # "undefined" /\ e.err.kind # "mcp") =>
                    \E i \in DOMAIN e.trail : e.trail[i] = "Running"

C23_WorktreeDisposalReturns ==
    \A r \in Ids :
        (ex[r].cleanup = "worktree" /\ ex[r].disposals = 1 /\ ex[r].pc = "settled") =>
            ex[r].promise = "resolved"

\* C24: verifyGitPush never raises and classifies every case: unpushed commits
\* give pushed=false with their summaries; none and the branch missing on the
\* remote give pushed=false with the sentinel; none and the branch present give
\* pushed=true with an empty list; any git tooling error gives pushed=false with
\* ["(verification error)"]; pushed=true comes only with an empty list.
C24_VerifyClassifies ==
    (call.fn = "verifyGitPush" /\ call.returned) =>
        LET commits == SelectSeq(call.log.lines, LAMBDA l : l # "")
            res == call.result IN
        /\ res.pushed => res.unpushedCommits = <<>>
        /\ IF call.log.outcome # "ok" THEN res = VerificationError
           ELSE IF commits # <<>> THEN res = [pushed |-> FALSE, unpushedCommits |-> commits]
           ELSE IF call.ls.outcome = "error" THEN res = VerificationError
           ELSE IF call.ls.stdout = ""
           THEN res = [pushed |-> FALSE, unpushedCommits |-> <<"(branch not on remote)">>]
           ELSE res = [pushed |-> TRUE, unpushedCommits |-> <<>>]

\* C25: worktree creation first attempts the requested branch; if that branch
\* does not exist in the bare store it falls back to the repository's default
\* branch and succeeds; both attempts check out detached, and stale
\* registrations are pruned before the add.
C25_BranchFallback ==
    (call.fn = "createWorktree" /\ call.returned) =>
        LET cmds == call.result.commands IN
        /\ cmds[1].cmd = "worktree prune"
        /\ \A i \in DOMAIN cmds : cmds[i].cmd = "worktree add" => (i > 1 /\ cmds[i].detach)
        /\ Len(cmds) >= 2 => cmds[2] = [cmd |-> "worktree add", detach |-> TRUE,
                                        ref |-> call.branch]
        /\ (call.pruneOk /\ call.pathFree /\ call.branch \notin call.heads) =>
              /\ call.result.returns
              /\ call.result.ref = call.default

\* The requests the admission surface has to turn away.
Inadmissible(h) ==
    \/ h.auth \in {"missing", "wrong"}
    \/ h.body # "object"
    \/ h.prompt # "ok"
    \/ h.workspace = "other"

\* C26: a POST /execute that is unauthenticated, has a body over 1 MB, is not
\* valid JSON, has a missing, non-string or blank prompt, or names a workspace
\* type other than git or tempdir is answered with an error status, and
\* queue.submit is never called for it.
C26_AdmissionErrorsRejected ==
    (call.fn = "POST /execute" /\ call.returned /\ Inadmissible(call.h)) =>
        /\ ~call.result.submitted
        /\ call.result.status \in {"400", "401", "413"}

\* The step of the handler that accepts request r: it ends with the 202.
Accepts(r) == ex[r].pc = "idle" /\ ex'[r].pc # "idle"

C27_RespondsBeforeBegin ==
    \A r \in Ids :
        Accepts(r) => /\ ex'[r].trail = <<>>
                      /\ ex'[r].pc \notin {"settled", "done"}
\* C27: for an accepted POST /execute the 202 is returned before the execution
\* of that request begins, and never waits for the execution to complete: when
\* the handler's step ends the execution has entered no state of its lifecycle.
C27_AsynchronousAdmission == [][C27_RespondsBeforeBegin]_vars

\* C28: the server map handed to the provider contains every server name of
\* the workspace's descriptor and of the request and no other; for a name in
\* both the request's spec is used; a name in only one source keeps its spec.
C28_McpMerge ==
    (call.fn = "mcp merge" /\ call.returned) =>
        LET local == call.file.servers
            asked == call.req.servers
            merged == call.result.mcpServers IN
        /\ call.result.threw <=> call.file.state = "malformed"
        /\ ~call.result.threw =>
              /\ DOMAIN merged = DOMAIN local \cup DOMAIN asked
              /\ \A n \in DOMAIN asked : merged[n] = asked[n]
              /\ \A n \in DOMAIN local \ DOMAIN asked : merged[n] = local[n]

\* C28 witness: both sources name github with different specs and only the
\* descriptor names memory; the merged map has the request's github and the
\* descriptor's memory.
C28_Witness ==
    /\ call.fn = "mcp merge" /\ call.returned
    /\ call.file.state = "map"
    /\ DOMAIN call.file.servers = {"github", "memory"}
    /\ call.req.given /\ DOMAIN call.req.servers = {"github"}
    /\ call.file.servers["github"] = "stdio" /\ call.req.servers["github"] = "http"
    /\ call.result.mcpServers["github"] = "http"
    /\ call.result.mcpServers["memory"] = call.file.servers["memory"]

\* C29: with overlays not explicitly disabled, after the overlay step of git
\* workspace setup every file of the slug's overlay directory exists in the
\* worktree with identical content, written over a repository file of the same
\* path; without an overlay directory, or with overlays false, the step
\* succeeds and adds no file.
C29_OverlayInjection ==
    (call.fn = "injectOverlays" /\ call.returned) =>
        LET before == call.worktree
            after == call.result.files
            source == call.overlay.files IN
        /\ (call.overlays = "false" \/ ~call.overlay.exists) =>
              ~call.result.threw /\ after = before
        /\ (call.overlays # "false" /\ call.overlay.exists /\ ~call.result.threw) =>
              /\ \A p \in DOMAIN source : p \in DOMAIN after /\ after[p] = source[p]
              /\ \A p \in DOMAIN before \ DOMAIN source : p \in DOMAIN after /\ after[p] = before[p]
              /\ DOMAIN after = DOMAIN before \cup DOMAIN source
        /\ call.result.threw =>
              \E p \in DOMAIN source, w \in DOMAIN before : Parent(p) = w \/ Parent(w) = p

\* C29 witness: overlays left at their default; the overlay's CLAUDE.md replaced
\* the repository's, which had other content, and docs/a.md was added.
C29_Witness ==
    /\ call.fn = "injectOverlays" /\ call.returned
    /\ call.overlays = "undefined"
    /\ call.overlay.exists
    /\ DOMAIN call.overlay.files = {"CLAUDE.md", "docs/a.md"}
    /\ DOMAIN call.worktree = {"CLAUDE.md"}
    /\ call.worktree["CLAUDE.md"] = "yo" /\ call.overlay.files["CLAUDE.md"] = "hi"
    /\ call.result.files["CLAUDE.md"] = "hi"
    /\ "docs/a.md" \in DOMAIN call.result.files

\* C30: a tempdir setup creates a new directory, distinct from that of every
\* other execution, with for each seed entry a file at that path holding
\* exactly that content; after disposal the directory and everything in it no
\* longer exist.  With no workspace the working directory is the process's
\* current directory and disposal changes nothing.
C30_TempDirWorkspace ==
    call.fn = "setupWorkspace" =>
        LET others == DirNames \ {call.cwd} IN
        /\ \A d \in others : call.step # "setup threw" => call.disk[d] = call.before[d]
        /\ call.workspace = "none" =>
              /\ call.step # "called" => call.cwd = "cwd"
              /\ call.disk = call.before
              /\ call.step \in {"called", "set up", "disposed"}
        /\ (call.workspace = "tempdir" /\ call.step \in {"set up", "dispose threw"}) =>
              /\ call.cwd \in DirNames \ {"cwd"}
              /\ ~call.before[call.cwd].exists
              /\ call.disk[call.cwd].exists
              /\ DOMAIN call.disk[call.cwd].files = DOMAIN call.seedFiles
              /\ \A p \in DOMAIN call.seedFiles :
                    call.disk[call.cwd].files[p] = call.seedFiles[p]
        /\ (call.workspace = "tempdir" /\ call.step = "disposed") =>
              /\ ~call.disk[call.cwd].exists
              /\ call.disk[call.cwd].files = NoFiles

\* C30 witness: beside another execution's tempdir a new one was created and
\* seeded with docs/a.md = "hi", and its disposal removed it.
C30_Witness ==
    /\ call.fn = "setupWorkspace" /\ call.workspace = "tempdir"
    /\ call.step = "disposed"
    /\ \E d \in DirNames \ {"cwd", call.cwd} : call.before[d].exists /\ call.disk[d].exists
    /\ DOMAIN call.seedFiles = {"docs/a.md"} /\ call.seedFiles["docs/a.md"] = "hi"
    /\ ~call.disk[call.cwd].exists

\* How often an execution entered Running, that is, called provider.run.
Invocations(e) == Cardinality({ i \in DOMAIN e.trail : e.trail[i] = "Running" })

\* C31: for each request the provider is invoked at most once, and only after
\* validation passed, workspace setup succeeded and the provider name resolved;
\* when workspace setup fails the provider is never invoked, the error callback
\* carries the raised error and no disposal action runs.
C31_GuardedInvocation ==
    \A r \in Ids :
        LET e == ex[r]
            q == request[r] IN
        e.pc \notin {"idle", "queued", "done"} =>
            /\ Invocations(e) <= 1
            /\ e.providerPromise # "none" <=> Invocations(e) = 1
            /\ Invocations(e) = 1 =>
                  /\ q.prompt = "ok"
                  /\ e.cleanup # "undefined"
                  /\ q.provider \in Registered
                  /\ e.err.kind \notin {"empty prompt", "setup", "mcp", "unknown provider"}
            /\ e.err.kind = "setup" =>
                  /\ Invocations(e) = 0
                  /\ e.timeoutId = "unset"
                  /\ e.cleanup = "undefined" /\ e.disposals = 0
                  /\ e.pc \in {"cb_err", "settled"}
                  /\ Len(e.callbacks) = IF q.callbackUrl THEN 1 ELSE 0
                  /\ \A i \in DOMAIN e.callbacks :
                        e.callbacks[i].status = "error" /\ e.callbacks[i].error.kind = "setup"

\* C31 witness: the setup of a git workspace failed after the worktree was
\* created; the execution ended after its error callback, without a provider
\* call and without a disposal.
C31_Witness ==
    \E r \in Ids :
        /\ ex[r].pc = "settled"
        /\ ex[r].err.kind = "setup"
        /\ ex[r].onDisk
        /\ Len(ex[r].callbacks) = 1
        /\ ex[r].providerPromise = "none"
        /\ ex[r].disposals = 0

\* The finally block of an execution has been entered.
InFinally(e) == \E i \in DOMAIN e.trail : e.trail[i] = "CleaningUp"

\* C32 (states): once the disposal has started, push verification (when it was
\* performed) and the callback delivery attempt have finished; an execution whose
\* promise has settled with a disposal handle has run its disposal once, and when
\* it resolved the workspace is gone.
C32_DisposalLastState ==
    \A r \in Ids :
        LET e == ex[r]
            q == request[r] IN
        e.pc \notin {"idle", "queued", "done"} =>
            /\ e.disposals > 0 => InFinally(e)
            /\ InFinally(e) =>
                  /\ e.pc \in {"cl_remove", "cl_prune", "settled"}
                  /\ e.posts > 0 => e.delivery # "none"
                  /\ e.verification # "none" <=>
                        (VerifiesPush(q) /\ Completed(e))
            /\ e.pc \in {"verify", "cb", "cb_err"} => e.disposals = 0 /\ ~InFinally(e)
            /\ (e.pc = "settled" /\ e.cleanup # "undefined") =>
                  /\ e.disposals = 1
                  /\ e.promise = "resolved" => ~e.onDisk

\* C32 (steps): nothing but the disposal and the settling of the promise happens
\* after the finally block was entered, and the queue takes note of an
\* execution's end (releasing its slot or handing it to the backlog's head) only
\* once its promise has settled.
C32_DisposalLastStep ==
    \A r \in Ids :
        /\ (InFinally(ex[r]) /\ ex'[r].pc # "done") =>
              /\ ex'[r].callbacks = ex[r].callbacks
              /\ ex'[r].posts = ex[r].posts
              /\ ex'[r].delivery = ex[r].delivery
              /\ ex'[r].verification = ex[r].verification
              /\ ex'[r].disposals = ex[r].disposals
              /\ ex'[r].pc = ex[r].pc \/ ex'[r].pc \in {"cl_prune", "settled"}
        /\ (ex[r].pc # "done" /\ ex'[r].pc = "done") => ex[r].pc = "settled"
        /\ (active' < active \/ (Len(startLog') > Len(startLog) /\ active' = active)) =>
              \E d \in Ids : ex[d].pc = "settled" /\ ex'[d].pc = "done"

\* C32: push verification and the callback delivery attempt finish before the
\* workspace disposal starts; the disposal is the last step of an execution, so a
\* queue slot is not released before the disposal has finished.
C32_DisposalLast == []C32_DisposalLastState /\ [][C32_DisposalLastStep]_vars

\* C32 witness: an execution that verified the push and posted its callback went
\* through the removal of its worktree; its promise has resolved and the queue
\* has not yet released its slot.
C32_Witness ==
    \E r \in Ids :
        /\ ex[r].pc = "settled"
        /\ ex[r].promise = "resolved"
        /\ ex[r].cleanup = "worktree"
        /\ ex[r].verification # "none"
        /\ ex[r].delivery # "none"
        /\ ex[r].disposals = 1
        /\ active > 0

\* C33: in every reachable state, if an execution's worktree or temp directory
\* has been removed by its disposal, then the provider.run call started in it has
\* settled (also after the timer won the race).
C33_NoDisposalWhileRunning ==
    \A r \in Ids :
        LET e == ex[r] IN
        (e.cleanup \in {"worktree", "tempdir"} /\ e.disposals > 0 /\ ~e.onDisk) =>
            e.providerPromise # "running"

\* The provider call of r settles in this step after the race was lost.
LateSettlement(r) ==
    /\ ex[r].providerPromise = "running"
    /\ ex[r].pc # "race"
    /\ ex'[r].providerPromise # "running"

\* C34 (steps): a late settlement changes nothing but the provider's promise,
\* and the timer fires only while the race is open and the provider is running.
C34_LateStep ==
    \A r \in Ids :
        /\ LateSettlement(r) =>
              /\ ex' = [ex EXCEPT ![r].providerPromise = ex'[r].providerPromise]
              /\ ex'[r].providerPromise \in {"late", "none"}
              /\ UNCHANGED <<request, active, backlog, enqLog, startLog, escaped, bare, clones>>
        /\ (ex[r].timeoutId # "fired" /\ ex'[r].timeoutId = "fired") =>
              /\ ex[r].pc = "race"
              /\ ex[r].providerPromise = "running"

\* C34 (states): an execution whose timer won has one error callback at most, no
\* push verification and one disposal at most; an execution whose provider
\* settled first has its timer cleared and no timeout error callback.
C34_RaceState ==
    \A r \in Ids :
        LET e == ex[r] IN
        /\ e.timeoutId = "fired" =>
              /\ e.err.kind = "timeout"
              /\ ~Completed(e)
              /\ e.verification = "none" /\ e.pc # "verify"
              /\ e.disposals <= 1
              /\ Len(e.callbacks) = IF request[r].callbackUrl THEN 1 ELSE 0
              /\ \A i \in DOMAIN e.callbacks : e.callbacks[i].error.kind = "timeout"
        /\ e.providerPromise \in {"success", "error", "rejected"} =>
              /\ e.timeoutId = "cleared"
              /\ e.err.kind # "timeout"
              /\ \A i \in DOMAIN e.callbacks : e.callbacks[i].error.kind # "timeout"

\* C34: once the timer has won the race, a provider result or rejection arriving
\* later causes no callback, no push verification, no second disposal and no
\* change to the queue's counters; once the provider has settled first, the
\* timer causes no error callback.
C34_LateOutcomeInert == []C34_RaceState /\ [][C34_LateStep]_vars

\* C34 witness: the timer won, the timeout callback was sent and the disposal
\* ran; then the provider settled, and the execution still has that one callback
\* and that one disposal.
C34_Witness ==
    \E r \in Ids :
        /\ ex[r].providerPromise = "late"
        /\ ex[r].timeoutId = "fired"
        /\ ex[r].pc = "settled"
        /\ Len(ex[r].callbacks) = 1
        /\ ex[r].disposals = 1

\* The workspace types setupWorkspace supports, and no workspace at all.
SupportedWorkspace == {"none", "git", "tempdir"}

\* The execution of r failed in setupWorkspace on an unsupported workspace type.
UnsupportedTypeFailure(r) ==
    /\ request[r].wsType \notin SupportedWorkspace
    /\ ex[r].err.kind = "setup"

\* C35: every request the HTTP transport passes to queue.submit has a non-blank
\* string prompt and a workspace that is absent or of a supported type (git or
\* tempdir), so no HTTP-admitted request fails in workspace setup with an
\* unsupported-workspace-type error.
C35_HttpAdmittedWellFormed ==
    \A r \in Ids :
        ex[r].pc \notin {"idle", "done"} =>
            /\ request[r].prompt = "ok"
            /\ request[r].wsType \in SupportedWorkspace
            /\ ~UnsupportedTypeFailure(r)

\* Some close() call has resolved.
CloseResolved == \E c \in CloseCalls : session.close[c].pc = "resolved"

\* C36: in every state after a close() call has resolved, the session is marked
\* closed, its turn buffer is empty and no flush timer is active, for every
\* interleaving of addTurn, timer-driven flush, size-triggered flush and close.
C36_CloseIsFinal ==
    CloseResolved =>
        /\ session.closed
        /\ session.buffer = <<>>
        /\ session.flushTimer = "null"

\* The recordTurns requests that carry turn t.
RequestsWith(t) ==
    { k \in DOMAIN session.recordTurns :
        \E i \in DOMAIN session.recordTurns[k].turns : session.recordTurns[k].turns[i] = t }

\* The close() calls that got past the already-closed check.
CloseAdmitted == { c \in CloseCalls : session.close[c].pc \notin {"idle", "threw"} }

\* C37 (turns): no added turn is in more than one recordTurns request, nor in a
\* request and still in the buffer.
C37_NoTurnTwice ==
    \A t \in 1..MaxAdds :
        /\ Cardinality(RequestsWith(t)) <= 1
        /\ RequestsWith(t) # {} => \A i \in DOMAIN session.buffer : session.buffer[i] # t

\* C37 (addTurn): an addTurn call on a closed session throws and leaves the
\* buffer and the requests as they were.
C37_AddAfterClose ==
    (session.closed /\ session'.turns + session'.refused > session.turns + session.refused) =>
        /\ session'.refused = session.refused + 1
        /\ session' = [session EXCEPT !.refused = @ + 1]

\* C37 (close): the closeSession request is issued once at most, and a second
\* close() call fails with the already-closed error.
C37_CloseOnce ==
    /\ session.closeSession <= 1
    /\ Cardinality(CloseAdmitted) <= 1

\* C37: for one Session the closeSession request is issued at most once (a
\* second close() call, also one made before the first has resolved, fails with
\* the already-closed error), addTurn after close fails without changing the
\* buffer, and no added turn is included in more than one recordTurns request.
C37_ClosesOnceNoDuplicates ==
    /\ [](C37_CloseOnce /\ C37_NoTurnTwice)
    /\ [][C37_AddAfterClose]_vars
====
